---------------------------- MODULE Spec2Model ----------------------------
(***************************************************************************)
(* A model of txt-ewClassifier (src/main.go): the word classifier, the     *)
(* frequency ranker, the cache-first definition resolver and the two       *)
(* persisted JSON files (word_cache.json, word_unknown.json).              *)
(*                                                                         *)
(* A Go string is modelled as the sequence of its bytes (0..255), because  *)
(* capitalizePhrase indexes bytes while strings.ToLower/ToUpper and range  *)
(* work on UTF-8 runes.                                                    *)
(***************************************************************************)
EXTENDS Integers, Sequences, FiniteSets, TLC

VARIABLES
    \* ---- the process and its globals (main.go:66-72)
    pc,                 \* "stopped" | "running": whether main() is executing
    config,             \* OutputConfig
    queryForUnknownWords, \* QueryConfig.QueryForUnknownWords
    wordCache,          \* map[string]WordCache
    wordUnknown,        \* map[string]bool, as the set of its keys
    \* ---- the two files on disk
    cacheFile,          \* word_cache.json
    unknownFile,        \* word_unknown.json
    \* ---- observation of the run
    runs,               \* number of runs started so far
    atLoad,             \* what the run found at load
    netCalls,           \* per key: HTTP requests issued in this run
    ret,                \* the last call and what it returned
    \* ---- the frequency ranker, as a pure function under test
    rk,
    \* ---- categorizeText
    ct,
    \* ---- the text helpers, as pure functions under test
    tx,
    \* ---- generateExampleSentencesContent, as a function under test
    es

resolverVars == <<pc, config, queryForUnknownWords, wordCache, wordUnknown,
                  cacheFile, unknownFile, runs, atLoad, netCalls, ret>>
vars == <<pc, config, queryForUnknownWords, wordCache, wordUnknown,
          cacheFile, unknownFile, runs, atLoad, netCalls, ret, rk, ct, tx, es>>

-----------------------------------------------------------------------------
(* Generic helpers *)

Range(f) == {f[x] : x \in DOMAIN f}

SeqsUpTo(S, n) == UNION {[1..k -> S] : k \in 0..n}

RECURSIVE SumOver(_, _)
SumOver(f, S) ==
    IF S = {} THEN 0
    ELSE LET x == CHOOSE y \in S : TRUE IN f[x] + SumOver(f, S \ {x})

RECURSIVE Concat(_)
Concat(ss) == IF ss = <<>> THEN <<>> ELSE Head(ss) \o Concat(Tail(ss))

-----------------------------------------------------------------------------
(* UTF-8 and package unicode, for the runes U+0000..U+00FF, U+0178,     *)
(* U+039C, U+03BC and U+FFFD                                            *)

RuneError == 65533

IsCont(b) == b >= 128 /\ b <= 191

\* utf8.DecodeRuneInString on a non-empty string: <<rune, width>>
DecodeRune(s) ==
    LET b0 == s[1]
        n  == Len(s)
    IN  IF b0 < 128 THEN <<b0, 1>>
        ELSE IF b0 >= 194 /\ b0 <= 223 /\ n >= 2 /\ IsCont(s[2])
            THEN <<(b0 - 192) * 64 + (s[2] - 128), 2>>
        ELSE IF b0 >= 224 /\ b0 <= 239 /\ n >= 3 /\ IsCont(s[2]) /\ IsCont(s[3])
                /\ (b0 = 224 => s[2] >= 160) /\ (b0 = 237 => s[2] <= 159)
            THEN <<(b0 - 224) * 4096 + (s[2] - 128) * 64 + (s[3] - 128), 3>>
        ELSE IF b0 >= 240 /\ b0 <= 244 /\ n >= 4
                /\ IsCont(s[2]) /\ IsCont(s[3]) /\ IsCont(s[4])
                /\ (b0 = 240 => s[2] >= 144) /\ (b0 = 244 => s[2] <= 143)
            THEN <<(b0 - 240) * 262144 + (s[2] - 128) * 4096
                     + (s[3] - 128) * 64 + (s[4] - 128), 4>>
        ELSE <<RuneError, 1>>

\* utf8.EncodeRune / string(rune)
EncodeRune(r) ==
    IF r < 128 THEN <<r>>
    ELSE IF r < 2048 THEN <<192 + (r \div 64), 128 + (r % 64)>>
    ELSE IF r < 65536
        THEN <<224 + (r \div 4096), 128 + ((r \div 64) % 64), 128 + (r % 64)>>
    ELSE <<240 + (r \div 262144), 128 + ((r \div 4096) % 64),
           128 + ((r \div 64) % 64), 128 + (r % 64)>>

\* for _, r := range s: the runes of s, one RuneError per invalid byte
RECURSIVE Runes(_)
Runes(s) ==
    IF s = <<>> THEN <<>>
    ELSE LET d == DecodeRune(s)
         IN  <<d[1]>> \o Runes(SubSeq(s, d[2] + 1, Len(s)))

RECURSIVE Encode(_)
Encode(rs) == IF rs = <<>> THEN <<>> ELSE EncodeRune(Head(rs)) \o Encode(Tail(rs))

\* unicode.ToLower / unicode.ToUpper (U+0178 is the upper case of U+00FF,
\* U+039C that of U+00B5 and of U+03BC)
ToLowerRune(r) ==
    IF (r >= 65 /\ r <= 90) \/ (r >= 192 /\ r <= 222 /\ r # 215) THEN r + 32
    ELSE IF r = 376 THEN 255
    ELSE IF r = 924 THEN 956
    ELSE r

ToUpperRune(r) ==
    IF (r >= 97 /\ r <= 122) \/ (r >= 224 /\ r <= 254 /\ r # 247) THEN r - 32
    ELSE IF r = 255 THEN 376
    ELSE IF r = 181 \/ r = 956 THEN 924
    ELSE r

\* unicode.IsLetter
IsLetter(r) ==
    \/ (r >= 65 /\ r <= 90) \/ (r >= 97 /\ r <= 122)
    \/ r \in {170, 181, 186, 376, 924, 956}
    \/ (r >= 192 /\ r <= 255 /\ r # 215 /\ r # 247)

\* unicode.In(r, unicode.Latin)
IsLatin(r) ==
    \/ (r >= 65 /\ r <= 90) \/ (r >= 97 /\ r <= 122)
    \/ r \in {170, 186, 376}
    \/ (r >= 192 /\ r <= 255 /\ r # 215 /\ r # 247)

\* unicode.IsSpace
IsSpace(r) == r \in {9, 10, 11, 12, 13, 32, 133, 160}

\* strings.ToLower / strings.ToUpper (strings.Map writes U+FFFD for an invalid byte)
RECURSIVE LowerRunes(_)
LowerRunes(rs) ==
    IF rs = <<>> THEN <<>> ELSE EncodeRune(ToLowerRune(Head(rs))) \o LowerRunes(Tail(rs))

RECURSIVE UpperRunes(_)
UpperRunes(rs) ==
    IF rs = <<>> THEN <<>> ELSE EncodeRune(ToUpperRune(Head(rs))) \o UpperRunes(Tail(rs))

ToLower(s) == LowerRunes(Runes(s))

ToUpper(s) == UpperRunes(Runes(s))

\* what encoding/json does to a string it reads or writes: invalid UTF-8
\* is coerced to U+FFFD
Sanitize(s) == Encode(Runes(s))

\* strings.Fields
RECURSIVE FieldsFrom(_, _, _)
FieldsFrom(s, cur, acc) ==
    IF s = <<>> THEN (IF cur = <<>> THEN acc ELSE Append(acc, cur))
    ELSE LET d    == DecodeRune(s)
             rest == SubSeq(s, d[2] + 1, Len(s))
         IN  IF IsSpace(d[1])
             THEN FieldsFrom(rest, <<>>, IF cur = <<>> THEN acc ELSE Append(acc, cur))
             ELSE FieldsFrom(rest, cur \o SubSeq(s, 1, d[2]), acc)

Fields(s) == FieldsFrom(s, <<>>, <<>>)

\* strings.Join
RECURSIVE Join(_, _)
Join(ss, sep) ==
    IF ss = <<>> THEN <<>>
    ELSE IF Len(ss) = 1 THEN ss[1]
    ELSE ss[1] \o sep \o Join(Tail(ss), sep)

\* strings.Split(s, "/")
RECURSIVE SplitFrom(_, _, _)
SplitFrom(s, cur, acc) ==
    IF s = <<>> THEN Append(acc, cur)
    ELSE IF Head(s) = 47 THEN SplitFrom(Tail(s), <<>>, Append(acc, cur))
    ELSE SplitFrom(Tail(s), Append(cur, Head(s)), acc)

SplitSlash(s) == SplitFrom(s, <<>>, <<>>)

\* strings.TrimSpace
RECURSIVE TrimLeft(_)
TrimLeft(s) ==
    IF s = <<>> THEN s
    ELSE LET d == DecodeRune(s)
         IN  IF IsSpace(d[1]) THEN TrimLeft(SubSeq(s, d[2] + 1, Len(s))) ELSE s

\* the width of the last rune of a non-empty string (utf8.DecodeLastRuneInString)
LastWidth(s) ==
    LET n == Len(s)
        W == {w \in 1..4 : w <= n /\ DecodeRune(SubSeq(s, n - w + 1, n)) [2] = w
                           /\ (w > 1 => DecodeRune(SubSeq(s, n - w + 1, n))[1] # RuneError)}
    IN  IF \E w \in W : w > 1 THEN CHOOSE w \in W : w > 1 ELSE 1

RECURSIVE TrimRight(_)
TrimRight(s) ==
    IF s = <<>> THEN s
    ELSE LET n == Len(s)
             w == LastWidth(s)
             r == DecodeRune(SubSeq(s, n - w + 1, n))[1]
         IN  IF IsSpace(r) THEN TrimRight(SubSeq(s, 1, n - w)) ELSE s

TrimSpace(s) == TrimRight(TrimLeft(s))

-----------------------------------------------------------------------------
(* Helper functions of main.go *)

\* one iteration of the loop of isEnglishText: the rune does not reject the text
runePasses(r) ==
    /\ ~(~IsLetter(r) /\ r # 32 /\ r # 45 /\ r # 47)
    /\ IsLatin(r)

RECURSIVE allRunesPass(_)
allRunesPass(rs) == rs = <<>> \/ (runePasses(Head(rs)) /\ allRunesPass(Tail(rs)))

isEnglishText(text) == allRunesPass(Runes(text))

\* strings.ToUpper(string(word[0])) + strings.ToLower(word[1:]): word[0] is a
\* byte, and string(byte) is the UTF-8 encoding of the rune of that value
capitalizeWord(word) ==
    IF Len(word) > 0
    THEN ToUpper(EncodeRune(word[1])) \o ToLower(Tail(word))
    ELSE word

RECURSIVE capitalizeWords(_)
capitalizeWords(words) ==
    IF words = <<>> THEN <<>>
    ELSE <<capitalizeWord(Head(words))>> \o capitalizeWords(Tail(words))

capitalizePhrase(phrase) == Join(capitalizeWords(Fields(phrase)), <<32>>)

capitalizeSentence(sentence) ==
    IF Len(sentence) = 0 THEN <<>>
    ELSE ToUpper(EncodeRune(sentence[1])) \o Tail(sentence)

RECURSIVE trimParts(_)
trimParts(parts) ==
    IF parts = <<>> THEN <<>> ELSE <<TrimSpace(Head(parts))>> \o trimParts(Tail(parts))

splitSlashSeparatedWords(text) == trimParts(SplitSlash(text))


-----------------------------------------------------------------------------
(* Frequency ranker *)

\* counts[capitalizePhrase(item)]++ for every item
countFrequencies(content) ==
    LET keys == {capitalizePhrase(content[i]) : i \in DOMAIN content}
    IN  [k \in keys |->
            Cardinality({i \in DOMAIN content : capitalizePhrase(content[i]) = k})]

Perms(S) ==
    {s \in [1..Cardinality(S) -> S] : \A i, j \in DOMAIN s : i # j => s[i] # s[j]}

\* the comparison handed to sort.Slice
lessByFrequency(counts, a, b) == counts[a] > counts[b]

\* The results sortByFrequency can return: the keys are collected in map
\* iteration order (unspecified) and sorted by sort.Slice (not stable), so
\* every order that is sorted under the comparison is possible.
sortByFrequency(counts) ==
    {s \in Perms(DOMAIN counts) :
        \A i, j \in DOMAIN s : i < j => ~lessByFrequency(counts, s[j], s[i])}

-----------------------------------------------------------------------------
(* Words used as inputs *)

W_a   == <<97>>
W_A   == <<65>>
W_b   == <<98>>
W_cat == <<99, 97, 116>>
W_Cat == <<67, 97, 116>>
W_dog == <<100, 111, 103>>
W_e_acute == <<195, 169>>
W_e_grave == <<195, 168>>
W_Bank == <<66, 97, 110, 107>>
W_bank == <<98, 97, 110, 107>>
\* "a/é"
W_a_slash_e == <<97, 47, 195, 169>>
W_slash == <<47>>

-----------------------------------------------------------------------------
(* Configuration (main.go:25-47, 166-219) *)

DefaultConfig ==
    [IncludePhonetic |-> FALSE, IncludeOrigin |-> FALSE,
     IncludeSynonyms |-> FALSE, IncludeAntonyms |-> FALSE,
     FilterNoExample |-> FALSE,
     GenerateExplanations |-> TRUE, GenerateExampleSentences |-> TRUE,
     MaxExampleSentences |-> 0]

\* the outputConfig.yml contents a run is started with
Configs == {DefaultConfig, [DefaultConfig EXCEPT !.FilterNoExample = TRUE]}


-----------------------------------------------------------------------------
(* The dictionary service and the parse of its response (main.go:328-451) *)

\* a JSON field that is absent or not of the asserted type
Absent == <<-1>>

S_n    == <<110>>
S_v    == <<118>>
S_def1 == <<100, 49>>
S_def2 == <<100, 50>>
S_ex   == <<101, 120>>
S_syn  == <<115>>
S_bad  == <<100, 255>>       \* a body string holding a byte that is not UTF-8
S_ph   == <<47, 102, 47>>

\* an element of an array that is not a JSON object
NotObject == [obj |-> FALSE]

RawDef(d, ex, syns, ants) ==
    [obj |-> TRUE, definition |-> d, example |-> ex, synonyms |-> syns, antonyms |-> ants]

RawMeaning(pos, defs) == [obj |-> TRUE, partOfSpeech |-> pos, definitions |-> defs]

\* result[0] of well-formed, non-empty response bodies
BodyNoDefinitions ==
    [phonetic |-> S_ph, phonetics |-> <<>>, origin |-> Absent, meanings |-> <<>>]

BodyOneMeaning ==
    [phonetic |-> Absent, phonetics |-> << <<>>, S_ph >>, origin |-> S_n,
     meanings |-> << RawMeaning(S_n,
                        << RawDef(S_def1, Absent, <<S_syn>>, <<>>),
                           NotObject,
                           RawDef(S_bad, S_ex, <<>>, <<S_syn>>) >>) >>]

BodyTwoMeanings ==
    [phonetic |-> Absent, phonetics |-> <<>>, origin |-> Absent,
     meanings |-> << RawMeaning(S_v, << RawDef(S_def2, S_ex, <<>>, <<>>) >>),
                     NotObject,
                     RawMeaning(Absent, << RawDef(S_def1, S_ex, <<>>, <<>>) >>) >>]

\* one definition, which has no example
BodyNoExamples ==
    [phonetic |-> Absent, phonetics |-> <<>>, origin |-> Absent,
     meanings |-> << RawMeaning(S_n, << RawDef(S_def1, Absent, <<>>, <<>>) >>) >>]

Bodies == {BodyNoDefinitions, BodyOneMeaning, BodyTwoMeanings, BodyNoExamples}

\* no exchange takes place
NoExchange == [kind |-> "none", body |-> BodyNoDefinitions]

\* what one HTTP exchange can come to (main.go:340-351)
ApiOutcomes ==
    {[kind |-> k, body |-> BodyNoDefinitions] :
        k \in {"neterr", "status", "malformed", "emptyarray"}}
    \cup {[kind |-> "ok", body |-> b] : b \in Bodies}

\* x.(string) of a decoded JSON value, "" when the assertion fails
StringOr(x) == IF x = Absent THEN <<>> ELSE Sanitize(x)

SanitizeAll(ss) == [i \in 1..Len(ss) |-> Sanitize(ss[i])]

\* the Definition built from one element of definitions[] (main.go:401-436)
ParseDefinition(pos, d) ==
    [PartOfSpeech |-> pos,
     Definition   |-> StringOr(d.definition),
     Example      |-> StringOr(d.example),
     Synonyms     |-> SanitizeAll(d.synonyms),
     Antonyms     |-> SanitizeAll(d.antonyms)]

RECURSIVE ParseDefinitions(_, _)
ParseDefinitions(pos, ds) ==
    IF ds = <<>> THEN <<>>
    ELSE (IF Head(ds).obj THEN <<ParseDefinition(pos, Head(ds))>> ELSE <<>>)
         \o ParseDefinitions(pos, Tail(ds))

RECURSIVE ParseMeanings(_)
ParseMeanings(ms) ==
    IF ms = <<>> THEN <<>>
    ELSE (IF Head(ms).obj
          THEN ParseDefinitions(StringOr(Head(ms).partOfSpeech), Head(ms).definitions)
          ELSE <<>>)
         \o ParseMeanings(Tail(ms))

\* the first non-empty text of phonetics[] (main.go:368-377)
RECURSIVE FirstPhonetic(_)
FirstPhonetic(ps) ==
    IF ps = <<>> THEN <<>>
    ELSE IF Sanitize(Head(ps)) # <<>> THEN Sanitize(Head(ps))
    ELSE FirstPhonetic(Tail(ps))

\* cachedData as built from result[0] (main.go:354-441)
RECURSIVE AllSynonyms(_)
AllSynonyms(defs) ==
    IF defs = <<>> THEN <<>> ELSE Head(defs).Synonyms \o AllSynonyms(Tail(defs))

RECURSIVE AllAntonyms(_)
AllAntonyms(defs) ==
    IF defs = <<>> THEN <<>> ELSE Head(defs).Antonyms \o AllAntonyms(Tail(defs))

WithDefinitions(body, defs) ==
    [Definitions |-> defs,
     Phonetic    |-> IF StringOr(body.phonetic) # <<>> THEN StringOr(body.phonetic)
                     ELSE FirstPhonetic(body.phonetics),
     Origin      |-> StringOr(body.origin),
     Synonyms    |-> AllSynonyms(defs),
     Antonyms    |-> AllAntonyms(defs)]

ParseResponse(body) == WithDefinitions(body, ParseMeanings(body.meanings))

\* the value queryDictionaryAPI returns: true only when it stored an entry
QuerySucceeds(outcome) ==
    /\ outcome.kind = "ok"
    /\ Len(ParseResponse(outcome.body).Definitions) > 0

-----------------------------------------------------------------------------
(* Maps and the two JSON files (main.go:247-291) *)

EmptyMap == <<>>

Put(m, k, v) == [x \in (DOMAIN m) \cup {k} |-> IF x = k THEN v ELSE m[x]]

Delete(m, k) == [x \in (DOMAIN m) \ {k} |-> m[x]]

\* A file is absent, whole (the complete serialization of data) or truncated
\* (a proper prefix of the serialization of data, which does not parse).
NoFile == [state |-> "absent", data |-> EmptyMap]

MarshalDefinition(d) ==
    [PartOfSpeech |-> Sanitize(d.PartOfSpeech),
     Definition   |-> Sanitize(d.Definition),
     Example      |-> Sanitize(d.Example),
     Synonyms     |-> SanitizeAll(d.Synonyms),
     Antonyms     |-> SanitizeAll(d.Antonyms)]

\* a serialization that writes the definitions last to first
MarshalEntry_Reversed(e) ==
    [Definitions |-> [i \in 1..Len(e.Definitions) |->
                         MarshalDefinition(e.Definitions[Len(e.Definitions) + 1 - i])],
     Phonetic    |-> Sanitize(e.Phonetic),
     Origin      |-> Sanitize(e.Origin),
     Synonyms    |-> SanitizeAll(e.Synonyms),
     Antonyms    |-> SanitizeAll(e.Antonyms)]

MarshalEntry(e) ==
    [Definitions |-> [i \in 1..Len(e.Definitions) |-> MarshalDefinition(e.Definitions[i])],
     Phonetic    |-> Sanitize(e.Phonetic),
     Origin      |-> Sanitize(e.Origin),
     Synonyms    |-> SanitizeAll(e.Synonyms),
     Antonyms    |-> SanitizeAll(e.Antonyms)]

\* json.MarshalIndent of a map: one member per key
MarshalMap(m, MarshalValue(_)) ==
    LET keys == {Sanitize(k) : k \in DOMAIN m}
    IN  [j \in keys |-> MarshalValue(m[CHOOSE k \in DOMAIN m : Sanitize(k) = j])]

MarshalBool(b) == b

MarshalCache(cache) == MarshalMap(cache, MarshalEntry)

MarshalUnknown(unknown) == MarshalMap(unknown, MarshalBool)

\* ioutil.WriteFile(path, data, 0644), whose error the callers drop:
\*   "ok"       the file now holds data
\*   "openfail" the file could not be opened for writing and is as it was
\*   "partial"  the file was truncated and only a prefix of data was written
WriteOutcomes == {"ok", "openfail", "partial"}

WriteFile(old, data, wr) ==
    CASE wr = "ok"       -> [state |-> "whole", data |-> data]
      [] wr = "openfail" -> old
      [] wr = "partial"  -> [state |-> "truncated", data |-> data]

saveWordCache(old, cache, wr) == WriteFile(old, MarshalCache(cache), wr)

saveWordUnknown(old, unknown, wr) == WriteFile(old, MarshalUnknown(unknown), wr)

\* json.Unmarshal of a whole file: the decoder coerces strings once more
UnmarshalDefinition(d) ==
    [PartOfSpeech |-> Sanitize(d.PartOfSpeech),
     Definition   |-> Sanitize(d.Definition),
     Example      |-> Sanitize(d.Example),
     Synonyms     |-> SanitizeAll(d.Synonyms),
     Antonyms     |-> SanitizeAll(d.Antonyms)]

UnmarshalEntry(e) ==
    [Definitions |-> [i \in 1..Len(e.Definitions) |-> UnmarshalDefinition(e.Definitions[i])],
     Phonetic    |-> Sanitize(e.Phonetic),
     Origin      |-> Sanitize(e.Origin),
     Synonyms    |-> SanitizeAll(e.Synonyms),
     Antonyms    |-> SanitizeAll(e.Antonyms)]

UnmarshalCache(data) == [k \in DOMAIN data |-> UnmarshalEntry(data[k])]

UnmarshalUnknown(data) == [k \in DOMAIN data |-> data[k]]

\* loadWordCache into the empty map the process starts with; readable is
\* whether ioutil.ReadFile succeeded
loadWordCache(file, readable) ==
    IF file.state = "absent" \/ ~readable THEN EmptyMap
    ELSE IF file.state = "whole" THEN UnmarshalCache(file.data)
    ELSE EmptyMap

loadWordUnknown(file, readable) ==
    IF file.state = "absent" \/ ~readable THEN EmptyMap
    ELSE IF file.state = "whole" THEN UnmarshalUnknown(file.data)
    ELSE EmptyMap

\* the file exists, was read, and json.Unmarshal returned an error
ParseFails(file, readable) == readable /\ file.state = "truncated"


-----------------------------------------------------------------------------
(* The resolver (main.go:453-548) *)

Line(kind, n, aux, text) == [kind |-> kind, n |-> n, aux |-> aux, text |-> text]

S_comma == <<44, 32>>

\* lines numbered by a counter of the definitions written so far
DefinitionLines_Renumbered(capitalized, cachedData, cfg, i) ==
    LET def       == cachedData.Definitions[i]
        defNumber == Cardinality({j \in 1..i :
                        ~(cfg.FilterNoExample /\ cachedData.Definitions[j].Example = <<>>)})
    IN  IF cfg.FilterNoExample /\ def.Example = <<>> THEN <<>>
        ELSE <<Line("def", defNumber, def.PartOfSpeech, def.Definition)>>
             \o (IF def.Example # <<>>
                 THEN <<Line("example", defNumber, <<>>, def.Example)>> ELSE <<>>)

\* lines written without regard to FilterNoExample
DefinitionLines_IgnoresFilter(capitalized, cachedData, cfg, i) ==
    LET def == cachedData.Definitions[i]
    IN  <<Line("def", i, def.PartOfSpeech, def.Definition)>>
        \o (IF def.Example # <<>>
            THEN <<Line("example", i, <<>>, def.Example)>> ELSE <<>>)

\* the lines written for definition i (main.go:517-545)
DefinitionLines(capitalized, cachedData, cfg, i) ==
    LET def       == cachedData.Definitions[i]
        defNumber == i
    IN  IF cfg.FilterNoExample /\ def.Example = <<>> THEN <<>>
        ELSE <<Line("def", defNumber, def.PartOfSpeech, def.Definition)>>
             \o (IF def.Example # <<>>
                 THEN <<Line("example", defNumber, <<>>, def.Example)>> ELSE <<>>)
             \o (IF cfg.IncludeSynonyms /\ Len(def.Synonyms) > 0
                 THEN <<Line("synonyms", defNumber, <<>>, Join(def.Synonyms, S_comma))>>
                 ELSE <<>>)
             \o (IF cfg.IncludeAntonyms /\ Len(def.Antonyms) > 0
                 THEN <<Line("antonyms", defNumber, <<>>, Join(def.Antonyms, S_comma))>>
                 ELSE <<>>)

\* strings.Trim(output.String(), "\n") on the lines written: only an empty
\* first line (an empty word without phonetic) is made of newlines alone
TrimNewlines(lines) ==
    IF lines # <<>> /\ lines[1].kind = "word" /\ lines[1].text = <<>>
    THEN Tail(lines) ELSE lines

\* the block fetchWordDetails returns for an entry that has definitions
\* (main.go:492-506, 516-547); the empty sequence is the empty string
FormatDetails(word, cachedData, cfg) ==
    LET capitalized == capitalizePhrase(word)
        header == IF cachedData.Phonetic # <<>> /\ cfg.IncludePhonetic
                  THEN Line("word", 0, <<>>, capitalized \o <<32>> \o cachedData.Phonetic)
                  ELSE Line("word", 0, <<>>, capitalized)
        origin == IF cfg.IncludeOrigin /\ cachedData.Origin # <<>>
                  THEN <<Line("origin", 0, <<>>, cachedData.Origin)>> ELSE <<>>
    IN  TrimNewlines(<<header>> \o origin
            \o Concat([i \in 1..Len(cachedData.Definitions) |->
                          DefinitionLines(capitalized, cachedData, cfg, i)]))

\* The stores a call works on: the two maps, the two files, and the number
\* of HTTP requests it has issued.
Stores(cache, unknown, cfile, ufile) ==
    [cache |-> cache, unknown |-> unknown, cfile |-> cfile, ufile |-> ufile, net |-> 0]

\* queryDictionaryAPI(word), the exchange coming to outcome (main.go:328-451)
\* wordCache[strings.ToLower(word)] = cachedData; saveWordCache()
storeEntry(st, cache, wrC) ==
    [st EXCEPT !.cache = cache,
               !.cfile = saveWordCache(st.cfile, cache, wrC),
               !.net   = @ + 1]

\* a query that stores the entry of every well-formed response
queryDictionaryAPI_StoresAlways(st, word, outcome, wrC) ==
    IF outcome.kind = "ok"
    THEN storeEntry(st, Put(st.cache, ToLower(word), ParseResponse(outcome.body)), wrC)
    ELSE [st EXCEPT !.net = @ + 1]

queryDictionaryAPI(st, word, outcome, wrC) ==
    IF QuerySucceeds(outcome)
    THEN storeEntry(st, Put(st.cache, ToLower(word), ParseResponse(outcome.body)), wrC)
    ELSE [st EXCEPT !.net = @ + 1]

setUnknown(st, unknown, wrU) ==
    [st EXCEPT !.unknown = unknown,
               !.ufile = saveWordUnknown(st.ufile, unknown, wrU)]

\* a failure path that forgets the marker
markUnknown_Forgets(st, word, wrU) == st

\* wordUnknown[word] = true; saveWordUnknown()
markUnknown(st, word, wrU) == setUnknown(st, Put(st.unknown, word, TRUE), wrU)

\* a word found on a new query keeps its marker
clearUnknown_Keeps(st, word, wrU) == st

\* delete(wordUnknown, word); saveWordUnknown()
clearUnknown(st, word, wrU) == setUnknown(st, Delete(st.unknown, word), wrU)

\* whether fetchWordDetails(word) reaches queryDictionaryAPI
IssuesQuery(st, word, q) ==
    LET w == ToLower(word)
    IN  IF w \in DOMAIN st.unknown THEN q ELSE w \notin DOMAIN st.cache

\* whether fetchWordDetails(word) reaches saveWordUnknown
SavesUnknown(st, word, outcome, q) ==
    LET w == ToLower(word)
    IN  IF w \in DOMAIN st.unknown THEN q /\ QuerySucceeds(outcome)
        ELSE IF w \in DOMAIN st.cache THEN Len(st.cache[w].Definitions) = 0
        ELSE ~QuerySucceeds(outcome)

\* main.go:475-547: the part of fetchWordDetails after the unknown-word check
formatCached(st1, w, wrU, cfg) ==
    IF Len(st1.cache[w].Definitions) = 0
    THEN [st |-> markUnknown(st1, w, wrU), out |-> <<>>]
    ELSE [st |-> st1, out |-> FormatDetails(w, st1.cache[w], cfg)]

fetchFromCache(st, w, outcome, wrC, wrU, cfg) ==
    IF w \in DOMAIN st.cache THEN formatCached(st, w, wrU, cfg)
    ELSE IF ~QuerySucceeds(outcome)
    THEN [st |-> markUnknown(queryDictionaryAPI(st, w, outcome, wrC), w, wrU),
          out |-> <<>>]
    ELSE formatCached(queryDictionaryAPI(st, w, outcome, wrC), w, wrU, cfg)

\* a resolver that queries the service for a marked word whatever the setting
fetchWordDetails_AlwaysRequeries(st, word, outcome, wrC, wrU, q, cfg) ==
    LET w == ToLower(word)
    IN  IF w \in DOMAIN st.unknown
        THEN IF ~QuerySucceeds(outcome)
             THEN [st |-> queryDictionaryAPI(st, w, outcome, wrC), out |-> <<>>]
             ELSE fetchFromCache(
                      clearUnknown(queryDictionaryAPI(st, w, outcome, wrC), w, wrU),
                      w, outcome, wrC, wrU, cfg)
        ELSE fetchFromCache(st, w, outcome, wrC, wrU, cfg)

\* a resolver that skips the cache and asks the service on every call
fetchWordDetails_SkipsCache(st, word, outcome, wrC, wrU, q, cfg) ==
    LET w == ToLower(word)
    IN  IF w \in DOMAIN st.unknown /\ ~q THEN [st |-> st, out |-> <<>>]
        ELSE IF ~QuerySucceeds(outcome)
        THEN [st |-> markUnknown(queryDictionaryAPI(st, w, outcome, wrC), w, wrU),
              out |-> <<>>]
        ELSE formatCached(queryDictionaryAPI(st, w, outcome, wrC), w, wrU, cfg)

\* a resolver that leaves the marker of a word it has found on a new query
fetchWordDetails_KeepsMarker(st, word, outcome, wrC, wrU, q, cfg) ==
    LET w == ToLower(word)
    IN  IF w \in DOMAIN st.unknown
        THEN IF ~q THEN [st |-> st, out |-> <<>>]
             ELSE IF ~QuerySucceeds(outcome)
             THEN [st |-> queryDictionaryAPI(st, w, outcome, wrC), out |-> <<>>]
             ELSE fetchFromCache(queryDictionaryAPI(st, w, outcome, wrC),
                                 w, outcome, wrC, wrU, cfg)
        ELSE fetchFromCache(st, w, outcome, wrC, wrU, cfg)

\* a resolver that does not lower the word: the entry queryDictionaryAPI
\* stores under the lowered word is not found under the word as spelled
fetchWordDetails_KeepsCase(st, word, outcome, wrC, wrU, q, cfg) ==
    IF word \in DOMAIN st.unknown /\ ~q THEN [st |-> st, out |-> <<>>]
    ELSE IF word \in DOMAIN st.cache THEN formatCached(st, word, wrU, cfg)
    ELSE [st |-> markUnknown(queryDictionaryAPI(st, word, outcome, wrC), word, wrU),
          out |-> <<>>]

\* fetchWordDetails(word): the stores after the call and the string returned
fetchWordDetails(st, word, outcome, wrC, wrU, q, cfg) ==
    LET w == ToLower(word)
    IN  IF w \in DOMAIN st.unknown
        THEN IF ~q THEN [st |-> st, out |-> <<>>]
             ELSE IF ~QuerySucceeds(outcome)
             THEN [st |-> queryDictionaryAPI(st, w, outcome, wrC), out |-> <<>>]
             ELSE fetchFromCache(
                      clearUnknown(queryDictionaryAPI(st, w, outcome, wrC), w, wrU),
                      w, outcome, wrC, wrU, cfg)
        ELSE fetchFromCache(st, w, outcome, wrC, wrU, cfg)

-----------------------------------------------------------------------------
(* Bounds *)

\* runs of the program in one behaviour
MaxRuns == 2
\* words handed to the ranker
MaxRankLen == 4
\* tokens of a document
MaxTokens == 2
\* definitions of the entry handed to generateExampleSentencesContent
MaxDefs == 3
\* largest MaxExampleSentences of a configuration
MaxLimit == 3
\* bytes of a text handed to the text helpers
MaxTextLen == 3
\* HTTP requests per word and run
MaxNetCalls == 2

-----------------------------------------------------------------------------
(* The process: runs of main() over the two files *)

\* the words fetchWordDetails is called with
FetchWords == {W_a, W_A}

Keys == {ToLower(w) : w \in FetchWords}

ZeroCounts == [k \in Keys |-> 0]

AtLoadNone ==
    [keys |-> {}, cacheUnparsed |-> FALSE, unknownUnparsed |-> FALSE,
     cacheWas |-> NoFile, unknownWas |-> NoFile]

\* the last call: found is what queryDictionaryAPI returned, if it was reached,
\* and parsed the number of definitions it took from the response
RetNone ==
    [op |-> "none", word |-> <<>>, api |-> "none", found |-> FALSE, parsed |-> 0,
     out |-> <<>>]

RkIdle == [pc |-> "idle", content |-> <<>>, counts |-> EmptyMap, result |-> <<>>]

TxIdle ==
    [pc |-> "idle", text |-> <<>>, wordParts |-> <<>>, accepted |-> <<>>,
     once |-> <<>>, twice |-> <<>>]

EsIdle ==
    [pc |-> "idle", word |-> <<>>, availableExamples |-> <<>>,
     selectedExamples |-> <<>>, i |-> 0, out |-> <<>>]

NoCategory == "none"

CtIdle ==
    [pc |-> "idle", tokens |-> <<>>, categorizedWords |-> EmptyMap,
     allWords |-> EmptyMap, pending |-> {}, category |-> NoCategory,
     sortedWords |-> <<>>, files |-> EmptyMap, uniqueUnknownWords |-> EmptyMap,
     unknownWordsFile |-> <<>>, knownWords |-> <<>>, allWordsFile |-> <<>>,
     ranked |-> EmptyMap, details |-> {}, err |-> "none", inflight |-> <<>>]

\* the memory of a process that is not running
Stopped ==
    /\ pc = "stopped"
    /\ config = DefaultConfig
    /\ queryForUnknownWords = FALSE
    /\ wordCache = EmptyMap
    /\ wordUnknown = EmptyMap
    /\ atLoad = AtLoadNone
    /\ netCalls = ZeroCounts
    /\ ret = RetNone

\* before the first run: neither file exists
ResolverInit ==
    /\ Stopped
    /\ cacheFile = NoFile
    /\ unknownFile = NoFile
    /\ runs = 0

Init == ResolverInit /\ rk = RkIdle /\ ct = CtIdle /\ tx = TxIdle /\ es = EsIdle

\* main() up to categorizeText: the configuration and the two files are
\* loaded (main.go:1033-1037)
StartRun(q, cfg, rdC, rdU) ==
    /\ pc = "stopped"
    /\ runs < MaxRuns
    /\ pc' = "running"
    /\ runs' = runs + 1
    /\ config' = cfg
    /\ queryForUnknownWords' = q
    /\ wordCache' = loadWordCache(cacheFile, rdC)
    /\ wordUnknown' = loadWordUnknown(unknownFile, rdU)
    /\ atLoad' = [keys |-> DOMAIN wordCache' \cup DOMAIN wordUnknown',
                  cacheUnparsed   |-> ParseFails(cacheFile, rdC),
                  unknownUnparsed |-> ParseFails(unknownFile, rdU),
                  cacheWas   |-> IF ParseFails(cacheFile, rdC) THEN cacheFile ELSE NoFile,
                  unknownWas |-> IF ParseFails(unknownFile, rdU) THEN unknownFile ELSE NoFile]
    /\ netCalls' = ZeroCounts
    /\ ret' = [RetNone EXCEPT !.op = "load"]
    /\ UNCHANGED <<cacheFile, unknownFile, rk, ct, tx, es>>

\* The inputs of a call in the current state: the exchange with the service,
\* if the call reaches it, and the outcome of each write it performs.
CurrentStores == Stores(wordCache, wordUnknown, cacheFile, unknownFile)

ExchangesOf(word) ==
    IF IssuesQuery(CurrentStores, word, queryForUnknownWords)
    THEN ApiOutcomes ELSE {NoExchange}

CacheWritesOf(word, outcome) ==
    IF outcome.kind # "none" /\ QuerySucceeds(outcome) THEN WriteOutcomes ELSE {"ok"}

UnknownWritesOf(word, outcome) ==
    IF SavesUnknown(CurrentStores, word, outcome, queryForUnknownWords)
    THEN WriteOutcomes ELSE {"ok"}

\* the effect of a call of fetchWordDetails(word) that comes to r
Returns(word, outcome, r) ==
    /\ wordCache' = r.st.cache
    /\ wordUnknown' = r.st.unknown
    /\ cacheFile' = r.st.cfile
    /\ unknownFile' = r.st.ufile
    /\ netCalls' = [k \in DOMAIN netCalls \cup {ToLower(word)} |->
                       (IF k \in DOMAIN netCalls THEN netCalls[k] ELSE 0)
                       + (IF k = ToLower(word) THEN r.st.net ELSE 0)]
    /\ ret' = [op |-> "fetch", word |-> word,
               api |-> IF r.st.net > 0 THEN outcome.kind ELSE "none",
               found |-> r.st.net > 0 /\ QuerySucceeds(outcome),
               parsed |-> IF r.st.net > 0 /\ outcome.kind = "ok"
                          THEN Len(ParseResponse(outcome.body).Definitions) ELSE 0,
               out |-> r.out]

\* one call of fetchWordDetails(word) by the running process
Fetch(word, outcome, wrC, wrU) ==
    /\ pc = "running"
    /\ IssuesQuery(CurrentStores, word, queryForUnknownWords)
          => netCalls[ToLower(word)] < MaxNetCalls
    /\ Returns(word, outcome,
               fetchWordDetails(CurrentStores, word, outcome, wrC, wrU,
                                queryForUnknownWords, config))
    /\ UNCHANGED <<pc, config, queryForUnknownWords, runs, atLoad, rk, ct, tx, es>>

\* the memory of the process is gone
ProcessEnds ==
    /\ pc' = "stopped"
    /\ config' = DefaultConfig
    /\ queryForUnknownWords' = FALSE
    /\ wordCache' = EmptyMap
    /\ wordUnknown' = EmptyMap
    /\ atLoad' = AtLoadNone
    /\ netCalls' = ZeroCounts
    /\ ret' = RetNone

\* the process is killed inside fetchWordDetails(word), after queryDictionaryAPI
\* has stored the entry and saved the cache file and before the next statement
FetchKilled(word, outcome) ==
    /\ pc = "running"
    /\ netCalls[ToLower(word)] < MaxNetCalls
    /\ IssuesQuery(CurrentStores, word, queryForUnknownWords)
    /\ QuerySucceeds(outcome)
    /\ cacheFile' = queryDictionaryAPI(CurrentStores, ToLower(word), outcome, "ok").cfile
    /\ ProcessEnds
    /\ UNCHANGED <<unknownFile, runs, rk, ct, tx, es>>

\* main() returns
Exit ==
    /\ pc = "running"
    /\ ProcessEnds
    /\ UNCHANGED <<cacheFile, unknownFile, runs, rk, ct, tx, es>>

Next ==
    \/ \E q \in BOOLEAN, cfg \in Configs, rdC \in BOOLEAN, rdU \in BOOLEAN :
           StartRun(q, cfg, rdC, rdU)
    \/ \E word \in FetchWords :
          \E outcome \in ExchangesOf(word) :
             \E wrC \in CacheWritesOf(word, outcome), wrU \in UnknownWritesOf(word, outcome) :
                Fetch(word, outcome, wrC, wrU)
    \/ \E word \in FetchWords, outcome \in ApiOutcomes : FetchKilled(word, outcome)
    \/ Exit

Spec == Init /\ [][Next]_vars


-----------------------------------------------------------------------------
(* Properties of the resolver and of the two files, checked under Spec *)

FailureKinds == {"neterr", "status", "malformed", "emptyarray"}

Known(k) == k \in DOMAIN wordCache \/ k \in DOMAIN wordUnknown

\* the step is a call of fetchWordDetails that returned
FetchReturned == pc = "running" /\ pc' = "running" /\ ret'.op = "fetch"

\* C1, as stated: whatever queryForUnknownWords is, at most one HTTP request
\* is issued for a word.
C1_AtMostOneCallPerWord == \A k \in Keys : netCalls[k] <= 1

\* C1, amended: with queryForUnknownWords disabled at most one HTTP request is
\* issued for a word in a run, and a word that had neither an entry nor a
\* marker at load and has been resolved has caused exactly one.
C1_AtMostOneCallWhenNotRequerying ==
    (pc = "running" /\ ~queryForUnknownWords) =>
        \A k \in Keys :
            /\ netCalls[k] <= 1
            /\ (k \notin atLoad.keys /\ Known(k)) => netCalls[k] = 1
            /\ (ret.op = "fetch" /\ ToLower(ret.word) = k) => Known(k)

\* the word has been resolved a second time, without a request, after the
\* call that issued the only one
C1_Witness ==
    /\ pc = "running" /\ ~queryForUnknownWords
    /\ ret.op = "fetch" /\ ret.api = "none"
    /\ netCalls[ToLower(ret.word)] = 1

\* C2: no word is at once a key of wordCache and a key of wordUnknown.
C2_NeverCachedAndUnknown ==
    \A k \in Keys : ~(k \in DOMAIN wordCache /\ k \in DOMAIN wordUnknown)

\* C3: within a run every entry of wordCache stays as it is: never deleted,
\* never rewritten.
C3_CacheEntriesNeverChange ==
    [][(pc = "running" /\ pc' = "running") =>
          \A k \in DOMAIN wordCache :
              k \in DOMAIN wordCache' /\ wordCache'[k] = wordCache[k]]_vars

\* C4: a call for a word that has a marker, with queryForUnknownWords disabled,
\* returns the empty string, issues no request and changes neither map nor file.
C4_MarkedWordIsNotQueried ==
    [][(FetchReturned /\ ~queryForUnknownWords
            /\ ToLower(ret'.word) \in DOMAIN wordUnknown) =>
          /\ ret'.out = <<>>
          /\ ret'.api = "none"
          /\ netCalls' = netCalls
          /\ wordCache' = wordCache
          /\ wordUnknown' = wordUnknown
          /\ cacheFile' = cacheFile
          /\ unknownFile' = unknownFile]_vars

C4_Witness ==
    /\ pc = "running" /\ ~queryForUnknownWords
    /\ ret.op = "fetch" /\ ret.api = "none" /\ ret.out = <<>>
    /\ ToLower(ret.word) \in DOMAIN wordUnknown
    /\ netCalls[ToLower(ret.word)] = 1

\* C5: a lookup that fails (network error, status, malformed body, empty
\* array) leaves the word with a marker, returns the empty string, and the
\* process keeps running.
C5_FailedLookupMarksUnknown ==
    [][(pc = "running" /\ ret'.op = "fetch" /\ ret'.api \in FailureKinds) =>
          /\ ToLower(ret'.word) \in DOMAIN wordUnknown'
          /\ ret'.out = <<>>
          /\ pc' = "running"]_vars

C5_Witness ==
    /\ pc = "running"
    /\ ret.op = "fetch" /\ ret.api = "malformed" /\ ret.out = <<>>
    /\ ToLower(ret.word) \in DOMAIN wordUnknown
    /\ ENABLED (\E word \in FetchWords : Fetch(word, NoExchange, "ok", "ok"))

\* C7: neither file on disk is ever a truncated serialization.
C7_FilesNeverTruncated ==
    cacheFile.state # "truncated" /\ unknownFile.state # "truncated"

\* C8: when a file could not be parsed at load the run starts from an empty
\* map and the unparsed content stays on disk for the rest of the run.
C8_UnparsedFileIsPreserved ==
    pc = "running" =>
        /\ (atLoad.cacheUnparsed /\ ret.op = "load") => wordCache = EmptyMap
        /\ (atLoad.unknownUnparsed /\ ret.op = "load") => wordUnknown = EmptyMap
        /\ atLoad.cacheUnparsed => cacheFile = atLoad.cacheWas
        /\ atLoad.unknownUnparsed => unknownFile = atLoad.unknownWas

\* C9: whenever saveWordCache has written the file, loadWordCache of that
\* file into an empty map gives the cache in memory: every word with the same
\* definitions in the same order.
C9_CacheRoundTrip ==
    [][(pc' = "running" /\ cacheFile' # cacheFile /\ cacheFile'.state = "whole") =>
          loadWordCache(cacheFile', TRUE) = wordCache']_vars

C9_Witness ==
    /\ pc = "running"
    /\ cacheFile.state = "whole"
    /\ \E k \in DOMAIN wordCache : Len(wordCache[k].Definitions) >= 2
    /\ loadWordCache(cacheFile, TRUE) = wordCache


\* the entry the last call of fetchWordDetails has formatted
Formatted == wordCache[ToLower(ret.word)]

\* the call returned a block for a word that has an entry
ReturnedBlock ==
    /\ pc = "running" /\ ret.op = "fetch" /\ ret.out # <<>>
    /\ ToLower(ret.word) \in DOMAIN wordCache

\* whether definition i is written under the configuration
Survives(i) == ~(config.FilterNoExample /\ Formatted.Definitions[i].Example = <<>>)

\* the positions, in the block, of the definition lines
DefLines == {j \in DOMAIN ret.out : ret.out[j].kind = "def"}

\* C15: for a word whose entry has no definition, or none that the filter
\* leaves, the block is the header and one "no details available" line.
C15_NoDetailsLine ==
    (/\ pc = "running" /\ ret.op = "fetch"
     /\ ToLower(ret.word) \in DOMAIN wordCache
     /\ \A i \in DOMAIN Formatted.Definitions : ~Survives(i))
        => /\ Len(ret.out) = 2
           /\ ret.out[1].kind = "word"
           /\ ret.out[2].kind = "nodetails"

\* C16: a definition line carries the position of its definition in the
\* entry's list, the lines come in the order of the list, under every
\* configuration and for an entry loaded from the file.
C16_NumberIsPositionInList ==
    ReturnedBlock =>
        /\ \A j \in DefLines :
              /\ ret.out[j].n \in DOMAIN Formatted.Definitions
              /\ ret.out[j].text = Formatted.Definitions[ret.out[j].n].Definition
              /\ ret.out[j].aux = Formatted.Definitions[ret.out[j].n].PartOfSpeech
        /\ \A j, k \in DefLines : j < k => ret.out[j].n < ret.out[k].n
        /\ \A j \in DOMAIN ret.out :
              ret.out[j].kind \in {"example", "synonyms", "antonyms"} =>
                  \E k \in DefLines :
                      /\ k < j /\ ret.out[k].n = ret.out[j].n
                      /\ \A m \in DefLines : m < j => m <= k

\* the second definition of an entry loaded from the file is written alone,
\* with the number 2
C16_Witness ==
    /\ ReturnedBlock /\ config.FilterNoExample
    /\ runs = 2 /\ ret.api = "none"
    /\ {ret.out[j].n : j \in DefLines} = {2}

\* C17, as stated: the definition lines of a block are numbered 1..N, N
\* being the number of definitions written.
C17_NumbersWithoutGaps ==
    ReturnedBlock => {ret.out[j].n : j \in DefLines} = 1..Cardinality(DefLines)

\* C17, amended: the definitions written are those the filter leaves, each
\* once and under its position in the whole list; the numbers are 1..N when
\* the filter is off.
C17_NumbersOfSurvivingPositions ==
    ReturnedBlock =>
        /\ {ret.out[j].n : j \in DefLines}
              = {i \in DOMAIN Formatted.Definitions : Survives(i)}
        /\ \A j, k \in DefLines : ret.out[j].n = ret.out[k].n => j = k
        /\ ~config.FilterNoExample =>
              {ret.out[j].n : j \in DefLines} = 1..Len(Formatted.Definitions)

\* with the filter on, the first of two definitions is left out and the block
\* holds the number 2 without the number 1
C17_Witness ==
    /\ ReturnedBlock /\ config.FilterNoExample
    /\ Len(Formatted.Definitions) = 2
    /\ ~Survives(1)
    /\ {ret.out[j].n : j \in DefLines} = {2}

\* C20: the keys of both maps are lowered words, and a call returns what the
\* entry or the marker under the lowered word gives.
C20_KeysAreLowercase ==
    pc = "running" =>
        /\ DOMAIN wordCache \cup DOMAIN wordUnknown \subseteq Keys
        /\ ret.op = "fetch" =>
              /\ ret.out # <<>> => ToLower(ret.word) \in DOMAIN wordCache
              /\ ret.out = <<>> => ToLower(ret.word) \in DOMAIN wordUnknown

\* "A" is resolved from the entry that the call for "a" stored
C20_Witness ==
    /\ pc = "running" /\ runs = 1
    /\ ret.op = "fetch" /\ ret.word = W_A /\ ret.api = "none" /\ ret.out # <<>>
    /\ DOMAIN wordCache = {W_a}
    /\ netCalls[W_a] = 1

\* C21: a call for a word that has a marker, with queryForUnknownWords
\* enabled, queries the service; when the query finds the word the marker is
\* deleted, the word has an entry and the block of that entry is returned;
\* when it does not, the markers stay as they are and "" is returned.
C21_RequeryClearsMarker ==
    [][(FetchReturned /\ queryForUnknownWords
            /\ ToLower(ret'.word) \in DOMAIN wordUnknown) =>
          /\ ret'.api # "none"
          /\ ret'.found =>
                /\ ToLower(ret'.word) \notin DOMAIN wordUnknown'
                /\ ToLower(ret'.word) \in DOMAIN wordCache'
                /\ ret'.out # <<>>
                /\ ret'.out = FormatDetails(ToLower(ret'.word),
                                            wordCache'[ToLower(ret'.word)], config)
          /\ ~ret'.found =>
                /\ wordUnknown' = wordUnknown
                /\ ret'.out = <<>>]_vars

\* a word that had neither entry nor marker at load is found by the second
\* query of the run: the first one failed and left the marker
C21_Witness ==
    /\ pc = "running" /\ queryForUnknownWords
    /\ W_a \notin atLoad.keys
    /\ netCalls[W_a] = 2
    /\ ret.op = "fetch" /\ ret.found /\ ret.out # <<>>
    /\ W_a \notin DOMAIN wordUnknown
    /\ W_a \in DOMAIN wordCache

\* the step is a call of fetchWordDetails that got a response of status 200
\* with a well-formed, non-empty array
GotResponse == FetchReturned /\ ret'.api = "ok"

\* C24, as stated: after a well-formed response the word has an entry and no
\* marker, however many definitions the response holds.
C24_EveryResponseIsStored ==
    [][GotResponse =>
          /\ ToLower(ret'.word) \in DOMAIN wordCache'
          /\ ToLower(ret'.word) \notin DOMAIN wordUnknown']_vars

\* C24, amended: a well-formed response with at least one definition leaves
\* the word with an entry of that many definitions and without marker; one
\* without definitions leaves the cache as it is and the word with a marker,
\* and the call returns "".
C24_ResponseIsStoredIfItDefines ==
    [][GotResponse =>
          IF ret'.parsed > 0
          THEN /\ ToLower(ret'.word) \in DOMAIN wordCache'
               /\ Len(wordCache'[ToLower(ret'.word)].Definitions) = ret'.parsed
               /\ ToLower(ret'.word) \notin DOMAIN wordUnknown'
          ELSE /\ wordCache' = wordCache
               /\ cacheFile' = cacheFile
               /\ ToLower(ret'.word) \in DOMAIN wordUnknown'
               /\ ret'.out = <<>>]_vars

\* a response without definitions has left the word with a marker and
\* without entry
C24_Witness ==
    /\ pc = "running"
    /\ ret.op = "fetch" /\ ret.api = "ok" /\ ret.parsed = 0
    /\ ToLower(ret.word) \in DOMAIN wordUnknown
    /\ ToLower(ret.word) \notin DOMAIN wordCache

\* C27: when a call of fetchWordDetails has returned, its result is empty if
\* and only if the word has a marker; a result that is not empty comes with
\* an entry of at least one definition and without marker.
C27_EmptyIffMarked ==
    (pc = "running" /\ ret.op = "fetch") =>
        /\ ret.out = <<>> <=> ToLower(ret.word) \in DOMAIN wordUnknown
        /\ ret.out # <<>> =>
              /\ ToLower(ret.word) \in DOMAIN wordCache
              /\ Len(wordCache[ToLower(ret.word)].Definitions) >= 1
              /\ ToLower(ret.word) \notin DOMAIN wordUnknown

\* a word that the run loaded with a marker is found by the query of a call,
\* which returns its block
C27_Witness ==
    /\ pc = "running" /\ runs = 2 /\ queryForUnknownWords
    /\ W_a \in atLoad.keys
    /\ netCalls[W_a] = 1
    /\ ret.op = "fetch" /\ ret.found /\ ret.out # <<>>
    /\ W_a \notin DOMAIN wordUnknown
    /\ Len(wordCache[W_a].Definitions) >= 1

-----------------------------------------------------------------------------
(* The frequency ranker as a function of its input: countFrequencies, then *)
(* sortByFrequency                                                         *)

RankWords == {W_cat, W_Cat, W_dog, W_e_acute, W_e_grave}

RankInit ==
    /\ ResolverInit
    /\ ct = CtIdle
    /\ tx = TxIdle
    /\ es = EsIdle
    /\ rk \in {[pc |-> "input", content |-> c, counts |-> EmptyMap, result |-> <<>>] :
                 c \in SeqsUpTo(RankWords, MaxRankLen)}

RankCount ==
    /\ rk.pc = "input"
    /\ rk' = [rk EXCEPT !.pc = "counted", !.counts = countFrequencies(rk.content)]
    /\ UNCHANGED <<resolverVars, ct, tx, es>>

RankSort ==
    /\ rk.pc = "counted"
    /\ \E s \in sortByFrequency(rk.counts) :
           rk' = [rk EXCEPT !.pc = "sorted", !.result = s]
    /\ UNCHANGED <<resolverVars, ct, tx, es>>

RankNext == RankCount \/ RankSort

SpecRank == RankInit /\ [][RankNext]_vars

\* two strings are equal ignoring case
EqualFold(a, b) == ToLower(a) = ToLower(b)

\* C10: the ranking holds each canonical form once, the count of a form is the
\* number of input words equal to it ignoring case, the forms are in
\* non-increasing order of count, and [cat, Cat, dog, cat] gives Cat 3, Dog 1.
C10_RankCountsWordsIgnoringCase ==
    rk.pc = "sorted" =>
        /\ \A i, j \in DOMAIN rk.result : i # j => rk.result[i] # rk.result[j]
        /\ \A i \in DOMAIN rk.content :
              \E j \in DOMAIN rk.result : EqualFold(rk.result[j], rk.content[i])
        /\ \A j \in DOMAIN rk.result :
              rk.counts[rk.result[j]]
                = Cardinality({i \in DOMAIN rk.content :
                                  EqualFold(rk.content[i], rk.result[j])})
        /\ \A i, j \in DOMAIN rk.result :
              i < j => rk.counts[rk.result[i]] >= rk.counts[rk.result[j]]
        /\ rk.content = <<W_cat, W_Cat, W_dog, W_cat>> =>
              /\ rk.result = <<W_Cat, <<68, 111, 103>> >>
              /\ rk.counts[W_Cat] = 3 /\ rk.counts[<<68, 111, 103>>] = 1


-----------------------------------------------------------------------------
(* categorizeText (main.go:632-1020): classification of the tokens, the    *)
(* lookups of each category, UnknownWords.txt and the AllWords files       *)

\* the tokens prose.NewDocument can hand over: a text and a Penn Treebank tag
TokenTexts == {W_Bank, W_bank, W_a_slash_e, W_slash}

TokenTags == {"NN", "VB", "VBN"}

Tokens == [Text : TokenTexts, Tag : TokenTags]

\* the documents analysed: at most MaxTokens tokens and as many slashes less,
\* so that at most MaxTokens words are split off
Slashes(text) == Cardinality({i \in DOMAIN text : text[i] = 47})

Documents ==
    {d \in SeqsUpTo(Tokens, MaxTokens) :
        Len(d) + SumOver([i \in DOMAIN d |-> Slashes(d[i].Text)], DOMAIN d) <= MaxTokens}

\* the switch on tok.Tag
Category(tag) ==
    CASE tag \in {"NN", "NNS", "NNP", "NNPS"} -> "Nouns"
      [] tag \in {"VB", "VBD", "VBP", "VBZ", "VBG"} -> "Verbs"
      [] tag \in {"JJ", "JJR", "JJS"} -> "Adjectives"
      [] tag \in {"RB", "RBR", "RBS"} -> "Adverbs"
      [] OTHER -> "OtherWords"

\* m[k], or the zero value when k is not a key
Count(m, k) == IF k \in DOMAIN m THEN m[k] ELSE 0

Bucket(m, k) == IF k \in DOMAIN m THEN m[k] ELSE <<>>

\* the body of the loop over wordParts, tables being categorizedWords and
\* allWords so far
addPart_FirstCategoryWins(tables, part, tag) ==
    IF isEnglishText(part)
    THEN LET first == {c \in DOMAIN tables.categorizedWords :
                          \E i \in DOMAIN tables.categorizedWords[c] :
                              tables.categorizedWords[c][i] = part}
             category == IF first = {} THEN Category(tag) ELSE CHOOSE c \in first : TRUE
         IN  [allWords |-> Put(tables.allWords, part, Count(tables.allWords, part) + 1),
              categorizedWords |->
                  Put(tables.categorizedWords, category,
                      Append(Bucket(tables.categorizedWords, category), part))]
    ELSE tables

addPart(tables, part, tag) ==
    IF isEnglishText(part)
    THEN [allWords |-> Put(tables.allWords, part, Count(tables.allWords, part) + 1),
          categorizedWords |->
              Put(tables.categorizedWords, Category(tag),
                  Append(Bucket(tables.categorizedWords, Category(tag)), part))]
    ELSE tables

RECURSIVE addParts(_, _, _)
addParts(tables, wordParts, tag) ==
    IF wordParts = <<>> THEN tables
    ELSE addParts(addPart(tables, Head(wordParts), tag), Tail(wordParts), tag)

\* the loop over the tokens
RECURSIVE classifyTokens(_, _)
classifyTokens(tables, tokens) ==
    IF tokens = <<>> THEN tables
    ELSE classifyTokens(
             addParts(tables, splitSlashSeparatedWords(ToLower(Head(tokens).Text)),
                      Head(tokens).Tag),
             Tail(tokens))

NoTables == [allWords |-> EmptyMap, categorizedWords |-> EmptyMap]

\* the calls that make categorizeText return an error before the input is
\* read: os.MkdirAll, os.Open, and prose.NewDocument after the read
EarlyErrors == {"mkdir", "open", "document"}

\* categorizeText returns err from MkdirAll, Open or NewDocument
CtFails(kind) ==
    /\ pc = "running"
    /\ ct.pc = "idle"
    /\ ct' = [ct EXCEPT !.pc = "failed", !.err = kind]
    /\ UNCHANGED <<resolverVars, rk, tx, es>>

\* the tables after the classification of the tokens
classified(c, tokens, tables) ==
    [c EXCEPT !.pc = "categories",
              !.tokens = tokens,
              !.categorizedWords = tables.categorizedWords,
              !.allWords = tables.allWords,
              !.pending = DOMAIN tables.categorizedWords]

\* categorizeText up to the end of the classification.  The input holds one
\* token a line; scanner.Scan() returns false at the end of the input or at
\* a read error, after the first `read` lines, and scanner.Err() is not
\* consulted: the tokens are those of the lines read.
CtClassify(input, read) ==
    /\ pc = "running"
    /\ ct.pc = "idle"
    /\ read \in 0..Len(input)
    /\ ct' = [classified(ct, SubSeq(input, 1, read),
                         classifyTokens(NoTables, SubSeq(input, 1, read)))
                EXCEPT !.err = IF read < Len(input) THEN "scan" ELSE "none"]
    /\ UNCHANGED <<resolverVars, rk, tx, es>>

\* os.Create fails for the word file, the explanation file or the example
\* sentences file of a category
CtCreateFails(category) ==
    /\ pc = "running"
    /\ ct.pc = "categories"
    /\ category \in ct.pending
    /\ ct' = [ct EXCEPT !.pc = "failed", !.err = "create"]
    /\ UNCHANGED <<resolverVars, rk, tx, es>>

\* os.Create fails for UnknownWords.txt or one of the AllWords files
CtSummaryFails ==
    /\ pc = "running"
    /\ ct.pc = "categories"
    /\ ct.pending = {}
    /\ ct' = [ct EXCEPT !.pc = "failed", !.err = "create"]
    /\ UNCHANGED <<resolverVars, rk, tx, es>>

\* the loop over categorizedWords comes to a category (in the order of the
\* map iteration): its file is created and its words are ranked
CtBeginCategory(category) ==
    /\ pc = "running"
    /\ ct.pc = "categories"
    /\ category \in ct.pending
    /\ \E sortedWords \in sortByFrequency(countFrequencies(ct.categorizedWords[category])) :
          ct' = [ct EXCEPT !.pc = "lookups",
                           !.category = category,
                           !.pending = ct.pending \ {category},
                           !.sortedWords = sortedWords,
                           !.ranked = Put(ct.ranked, category, sortedWords),
                           !.files = Put(ct.files, category, <<>>)]
    /\ UNCHANGED <<resolverVars, rk, tx, es>>

\* a loop body that writes the word whatever the lookup returned
lookedUp_WritesUnknown(c, word, out) ==
    [c EXCEPT !.sortedWords = Tail(c.sortedWords),
              !.details = IF out = <<>> THEN c.details
                          ELSE c.details \cup {<<c.category, word>>},
              !.uniqueUnknownWords =
                  IF out # <<>> THEN c.uniqueUnknownWords
                  ELSE Put(c.uniqueUnknownWords, ToLower(word),
                           Count(c.uniqueUnknownWords, ToLower(word))
                             + Count(c.allWords, ToLower(word))),
              !.files = Put(c.files, c.category,
                            Append(c.files[c.category], capitalizePhrase(word)))]

\* the body of the loop over sortedWords, for its next word; ranked and
\* details keep, for each category, the ranking and the words whose lookup
\* returned details
lookedUp(c, word, out) ==
    IF out = <<>>
    THEN [c EXCEPT !.sortedWords = Tail(c.sortedWords),
                   !.uniqueUnknownWords =
                       Put(c.uniqueUnknownWords, ToLower(word),
                           Count(c.uniqueUnknownWords, ToLower(word))
                             + Count(c.allWords, ToLower(word)))]
    ELSE [c EXCEPT !.sortedWords = Tail(c.sortedWords),
                   !.details = c.details \cup {<<c.category, word>>},
                   !.files = Put(c.files, c.category,
                                 Append(c.files[c.category], capitalizePhrase(word)))]

\* the exchanges the documents are analysed with: a failure, a response with
\* definitions and a response without
PipelineExchanges ==
    {[kind |-> "neterr", body |-> BodyNoDefinitions],
     [kind |-> "ok", body |-> BodyOneMeaning],
     [kind |-> "ok", body |-> BodyNoDefinitions]}

\* a loop that starts requests without waiting for the one it has sent
mayStart_Concurrent(c) == Len(c.inflight) < 2

\* the loops call fetchWordDetails, and that calls client.Do, synchronously:
\* the next call starts when the last one has returned
mayStart(c) == c.inflight = <<>>

\* fetchWordDetails(word) reaches client.Do(req): the request for the word is
\* in flight
CtSend ==
    /\ pc = "running"
    /\ ct.pc \in {"lookups", "allwords"}
    /\ ct.sortedWords # <<>>
    /\ mayStart(ct)
    /\ IssuesQuery(CurrentStores, Head(ct.sortedWords), queryForUnknownWords)
    /\ ct' = [ct EXCEPT !.inflight = Append(@, ToLower(Head(ct.sortedWords)))]
    /\ UNCHANGED <<resolverVars, rk, tx, es>>

\* a call of fetchWordDetails(word) in categorizeText, from the response to
\* its request, if it has sent one, to its return; both files are written in
\* full when the call saves them
CtFetches(word, outcome) ==
    /\ IF IssuesQuery(CurrentStores, word, queryForUnknownWords)
       THEN ct.inflight # <<>> /\ outcome \in PipelineExchanges
       ELSE ct.inflight = <<>> /\ outcome = NoExchange
    /\ Returns(word, outcome,
               fetchWordDetails(CurrentStores, word, outcome, "ok", "ok",
                                queryForUnknownWords, config))

CtLookup(outcome) ==
    /\ pc = "running"
    /\ ct.pc = "lookups"
    /\ ct.sortedWords # <<>>
    /\ CtFetches(Head(ct.sortedWords), outcome)
    /\ ct' = [lookedUp(ct, Head(ct.sortedWords), ret'.out)
                EXCEPT !.inflight = IF @ = <<>> THEN @ ELSE Tail(@)]
    /\ UNCHANGED <<pc, config, queryForUnknownWords, runs, atLoad, rk, tx, es>>

\* the words of the category are done: its file is flushed
CtEndCategory ==
    /\ pc = "running"
    /\ ct.pc = "lookups"
    /\ ct.sortedWords = <<>>
    /\ ct' = [ct EXCEPT !.pc = "categories", !.category = NoCategory]
    /\ UNCHANGED <<resolverVars, rk, tx, es>>

RECURSIVE twiceEach(_)
twiceEach(words) ==
    IF words = <<>> THEN <<>>
    ELSE <<capitalizePhrase(Head(words)), capitalizePhrase(Head(words))>>
            \o twiceEach(Tail(words))

RECURSIVE capitalizeEach(_)
capitalizeEach(words) ==
    IF words = <<>> THEN <<>>
    ELSE <<capitalizePhrase(Head(words))>> \o capitalizeEach(Tail(words))

\* the words of sortedAllWords that are no key of uniqueUnknownWords
RECURSIVE knownOf(_, _)
knownOf(sortedAllWords, unknown) ==
    IF sortedAllWords = <<>> THEN <<>>
    ELSE (IF ToLower(Head(sortedAllWords)) \in DOMAIN unknown
          THEN <<>> ELSE <<Head(sortedAllWords)>>)
            \o knownOf(Tail(sortedAllWords), unknown)

\* after the last category: UnknownWords.txt and _AllWords.txt are written
CtWriteSummaries ==
    /\ pc = "running"
    /\ ct.pc = "categories"
    /\ ct.pending = {}
    /\ \E unknownWordsFreqList \in
              sortByFrequency(Delete(ct.uniqueUnknownWords, <<>>)),
          sortedAllWords \in sortByFrequency(ct.allWords) :
          ct' = [ct EXCEPT
                   !.pc = "allwords",
                   !.unknownWordsFile = twiceEach(unknownWordsFreqList),
                   !.knownWords = knownOf(sortedAllWords, ct.uniqueUnknownWords),
                   !.allWordsFile =
                       capitalizeEach(knownOf(sortedAllWords, ct.uniqueUnknownWords)),
                   !.sortedWords =
                       IF config.GenerateExplanations
                       THEN knownOf(sortedAllWords, ct.uniqueUnknownWords)
                       ELSE <<>>]
    /\ UNCHANGED <<resolverVars, rk, tx, es>>

\* the loop that writes _AllWords_ex.txt, for its next word
CtExplain(outcome) ==
    /\ pc = "running"
    /\ ct.pc = "allwords"
    /\ ct.sortedWords # <<>>
    /\ CtFetches(Head(ct.sortedWords), outcome)
    /\ ct' = [ct EXCEPT !.sortedWords = Tail(ct.sortedWords),
                        !.inflight = IF @ = <<>> THEN @ ELSE Tail(@)]
    /\ UNCHANGED <<pc, config, queryForUnknownWords, runs, atLoad, rk, tx, es>>

\* categorizeText returns
CtReturn ==
    /\ pc = "running"
    /\ ct.pc = "allwords"
    /\ ct.sortedWords = <<>>
    /\ ct' = [ct EXCEPT !.pc = "done"]
    /\ UNCHANGED <<resolverVars, rk, tx, es>>

PipelineNext ==
    \/ \E q \in BOOLEAN : StartRun(q, DefaultConfig, TRUE, TRUE)
    \/ \E kind \in EarlyErrors : CtFails(kind)
    \/ \E input \in Documents : \E read \in 0..Len(input) : CtClassify(input, read)
    \/ \E category \in ct.pending : CtCreateFails(category)
    \/ CtSummaryFails
    \/ \E category \in ct.pending : CtBeginCategory(category)
    \/ CtSend
    \/ \E outcome \in PipelineExchanges \cup {NoExchange} : CtLookup(outcome)
    \/ CtEndCategory
    \/ CtWriteSummaries
    \/ \E outcome \in PipelineExchanges \cup {NoExchange} : CtExplain(outcome)
    \/ CtReturn

SpecPipeline == Init /\ [][PipelineNext]_vars

\* the words a token contributes: the parts of its lowered text that pass
\* isEnglishText
AcceptedParts(tok) ==
    SelectSeq(splitSlashSeparatedWords(ToLower(tok.Text)), isEnglishText)

\* the occurrences, in document order, of the tokens whose tag is of category c
OccurrencesIn(tokens, c) ==
    Concat([i \in 1..Len(tokens) |->
               IF Category(tokens[i].Tag) = c THEN AcceptedParts(tokens[i]) ELSE <<>>])

\* the categories the occurrences of a word are bucketed under
CategoriesOf(part) ==
    {c \in DOMAIN ct.categorizedWords : part \in Range(ct.categorizedWords[c])}

\* the category of the tag of the first occurrence of a word
FirstCategory(part) ==
    Category(ct.tokens[CHOOSE i \in DOMAIN ct.tokens :
                          /\ part \in Range(AcceptedParts(ct.tokens[i]))
                          /\ \A j \in 1..(i - 1) :
                                part \notin Range(AcceptedParts(ct.tokens[j]))].Tag)

-----------------------------------------------------------------------------
(* The text helpers as functions of a token's text: the split and the      *)
(* filter of the classification loop (main.go:695-701), then               *)
(* capitalizePhrase as countFrequencies (main.go:116) and the writer of    *)
(* the word files (main.go:808) apply it                                   *)

\* a, B, hyphen, space, slash, 1, and the bytes of U+00E9 and U+00B5
TxBytes == {97, 66, 45, 32, 47, 49, 195, 169, 194, 181}

\* the texts: valid UTF-8
TxTexts == {s \in SeqsUpTo(TxBytes, MaxTextLen) : Sanitize(s) = s}

TxInit ==
    /\ ResolverInit
    /\ rk = RkIdle
    /\ ct = CtIdle
    /\ es = EsIdle
    /\ tx \in {[TxIdle EXCEPT !.pc = "input", !.text = s] : s \in TxTexts}

TxSplit ==
    /\ tx.pc = "input"
    /\ tx' = [tx EXCEPT !.pc = "split",
                        !.wordParts = splitSlashSeparatedWords(ToLower(tx.text))]
    /\ UNCHANGED <<resolverVars, rk, ct, es>>

TxFilter ==
    /\ tx.pc = "split"
    /\ tx' = [tx EXCEPT !.pc = "filtered",
                        !.accepted = [i \in DOMAIN tx.wordParts |->
                                         isEnglishText(tx.wordParts[i])]]
    /\ UNCHANGED <<resolverVars, rk, ct, es>>

TxCapitalize ==
    /\ tx.pc = "filtered"
    /\ tx' = [tx EXCEPT !.pc = "capitalized", !.once = capitalizePhrase(tx.text)]
    /\ UNCHANGED <<resolverVars, rk, ct, es>>

TxCapitalizeAgain ==
    /\ tx.pc = "capitalized"
    /\ tx' = [tx EXCEPT !.pc = "done", !.twice = capitalizePhrase(tx.once)]
    /\ UNCHANGED <<resolverVars, rk, ct, es>>

TxNext == TxSplit \/ TxFilter \/ TxCapitalize \/ TxCapitalizeAgain

SpecText == TxInit /\ [][TxNext]_vars

\* C12: capitalizePhrase applied to its own result gives that result.
C12_CapitalizePhraseIdempotent ==
    tx.pc = "done" => tx.twice = tx.once

\* a Latin letter, a space or a hyphen
LatinSpaceOrHyphen(r) == (IsLetter(r) /\ IsLatin(r)) \/ r = 32 \/ r = 45

\* C18: a part is accepted exactly when each of its characters is a Latin
\* letter, a space or a hyphen.
C18_FilterAcceptsLatinSpaceHyphen ==
    tx.pc = "filtered" =>
        \A i \in DOMAIN tx.wordParts :
            tx.accepted[i]
              <=> \A j \in DOMAIN Runes(tx.wordParts[i]) :
                     LatinSpaceOrHyphen(Runes(tx.wordParts[i])[j])

\* a < b in the order of Go's string comparison (byte by byte)
RECURSIVE LexLess(_, _)
LexLess(a, b) ==
    IF b = <<>> THEN FALSE
    ELSE IF a = <<>> THEN TRUE
    ELSE IF Head(a) # Head(b) THEN Head(a) < Head(b)
    ELSE LexLess(Tail(a), Tail(b))

\* C11: forms of equal count are in ascending alphabetical order, so the
\* ranking of an input is one sequence only.
C11_TiesInAlphabeticalOrder ==
    rk.pc = "sorted" =>
        \A i, j \in DOMAIN rk.result :
            (i < j /\ rk.counts[rk.result[i]] = rk.counts[rk.result[j]])
                => LexLess(rk.result[i], rk.result[j])


\* the positions of the slashes of a text, between 0 and Len + 1
Cuts(text) == {0, Len(text) + 1} \cup {i \in DOMAIN text : text[i] = 47}

\* the stretches of a text between two neighbouring slashes, trimmed
Segments(text) ==
    {TrimSpace(SubSeq(text, a + 1, b - 1)) :
        <<a, b>> \in {x \in Cuts(text) \X Cuts(text) :
                        x[1] < x[2] /\ \A m \in Cuts(text) : ~(x[1] < m /\ m < x[2])}}

\* how often word is a part of a token of the document
OccurrencesOf(word) ==
    SumOver([i \in DOMAIN ct.tokens |->
                Cardinality({k \in DOMAIN AcceptedParts(ct.tokens[i]) :
                                AcceptedParts(ct.tokens[i])[k] = word})],
            DOMAIN ct.tokens)

\* C13: every accepted part of a token with slashes is a word of its own: it
\* is counted, it is in the bucket of the token's tag, the ranking of that
\* category holds its capitalized form, and the unsplit text is no word.
C13_SlashPartsAreIndependentWords ==
    ct.pc = "done" =>
        \A i \in DOMAIN ct.tokens :
            /\ \A part \in {p \in Segments(ToLower(ct.tokens[i].Text)) : isEnglishText(p)} :
                  /\ part \in DOMAIN ct.allWords
                  /\ ct.allWords[part] = OccurrencesOf(part)
                  /\ part \in Range(Bucket(ct.categorizedWords, Category(ct.tokens[i].Tag)))
                  /\ \E j \in DOMAIN ct.ranked[Category(ct.tokens[i].Tag)] :
                        EqualFold(ct.ranked[Category(ct.tokens[i].Tag)][j], part)
            /\ Slashes(ct.tokens[i].Text) > 0 =>
                  /\ ToLower(ct.tokens[i].Text) \notin DOMAIN ct.allWords
                  /\ \A c \in DOMAIN ct.ranked :
                        \A j \in DOMAIN ct.ranked[c] :
                           ~EqualFold(ct.ranked[c][j], ct.tokens[i].Text)

\* the category of a tag by its first two letters
PrefixCategory(tag) ==
    CASE tag \in {"NN", "NNS", "NNP", "NNPS"} -> "Nouns"
      [] tag \in {"VB", "VBD", "VBG", "VBN", "VBP", "VBZ"} -> "Verbs"
      [] tag \in {"JJ", "JJR", "JJS"} -> "Adjectives"
      [] tag \in {"RB", "RBR", "RBS"} -> "Adverbs"
      [] OTHER -> "OtherWords"

\* C19: a token's words are bucketed under the category that the prefix of
\* its tag gives: NN Nouns, VB Verbs, JJ Adjectives, RB Adverbs, else
\* OtherWords.
C19_CategoryByTagPrefix ==
    ct.pc # "idle" =>
        \A c \in {"Nouns", "Verbs", "Adjectives", "Adverbs", "OtherWords"} :
            Bucket(ct.categorizedWords, c)
              = Concat([i \in 1..Len(ct.tokens) |->
                           IF PrefixCategory(ct.tokens[i].Tag) = c
                           THEN AcceptedParts(ct.tokens[i]) ELSE <<>>])

WithDetails(c, ranking) ==
    IF ranking = <<>> THEN <<>>
    ELSE LET keep == {i \in DOMAIN ranking : <<c, ranking[i]>> \in ct.details}
         IN  [n \in 1..Cardinality(keep) |->
                 ranking[CHOOSE i \in keep : Cardinality({m \in keep : m <= i}) = n]]

\* the lookups of the category loops: a category and a word of its ranking
Lookups ==
    UNION {{<<c, ct.ranked[c][j]>> : j \in DOMAIN ct.ranked[c]} : c \in DOMAIN ct.ranked}

NoFurtherStep == UNCHANGED <<ct, wordCache, wordUnknown, cacheFile, unknownFile, netCalls, ret>>

\* C22: once MkdirAll, Open, a read of the input, NewDocument or Create has
\* failed, categorizeText has returned: no step of classification, lookup or
\* output follows.
C22_ErrorsAbortRun ==
    [][ct.err # "none" => (ct.pc = "failed" /\ NoFurtherStep)]_vars

\* C23: at most one request is in flight, so never two for one word, and a
\* request is in flight only in one of the two loops over the ranked words,
\* which start when all tokens are classified; before that no call of
\* fetchWordDetails has been made and no request sent.
C23_OneLookupAtATime ==
    /\ Len(ct.inflight) <= 1
    /\ \A i, j \in DOMAIN ct.inflight : ct.inflight[i] = ct.inflight[j] => i = j
    /\ ct.inflight # <<>> =>
          /\ ct.pc \in {"lookups", "allwords"}
          /\ ct.sortedWords # <<>>
          /\ ct.inflight = <<ToLower(Head(ct.sortedWords))>>
          /\ ct.allWords = classifyTokens(NoTables, ct.tokens).allWords
    /\ ct.pc = "idle" =>
          /\ ret.op # "fetch"
          /\ \A k \in DOMAIN netCalls : netCalls[k] = 0

\* the request for the first of two ranked words is in flight and the second
\* word waits
C23_Witness ==
    /\ ct.pc = "lookups"
    /\ Len(ct.inflight) = 1
    /\ Len(ct.sortedWords) = 2

\* the number of accepted occurrences of a lowered word in the tokens
Occurrences(w) == Count(classifyTokens(NoTables, ct.tokens).allWords, w)

\* UnknownWords.txt is written
SummariesWritten == ct.pc \in {"allwords", "done"}

\* C25: UnknownWords.txt holds every word whose lookup returned nothing on
\* exactly one line, and its lines are in non-increasing order of frequency.
C25_UnknownWordsListedOnce ==
    SummariesWritten =>
        /\ \A k \in DOMAIN ct.uniqueUnknownWords \ {<<>>} :
              Cardinality({i \in DOMAIN ct.unknownWordsFile :
                              ct.unknownWordsFile[i] = capitalizePhrase(k)}) = 1
        /\ \A i, j \in DOMAIN ct.unknownWordsFile :
              i < j => \E k, l \in DOMAIN ct.uniqueUnknownWords :
                          /\ ct.unknownWordsFile[i] = capitalizePhrase(k)
                          /\ ct.unknownWordsFile[j] = capitalizePhrase(l)
                          /\ Occurrences(k) >= Occurrences(l)

-----------------------------------------------------------------------------
(* generateExampleSentencesContent (main.go:551-615) as a function of the   *)
(* two maps and of MaxExampleSentences, the random choices being free       *)

\* the examples of the definitions handed over: none, or one of two texts
ExampleTexts == {<<>>, S_ex, S_def1}

EsDefinition(example) ==
    [PartOfSpeech |-> S_n, Definition |-> S_def2, Example |-> example,
     Synonyms |-> <<>>, Antonyms |-> <<>>]

EsEntry(examples) ==
    [Definitions |-> [i \in DOMAIN examples |-> EsDefinition(examples[i])],
     Phonetic |-> <<>>, Origin |-> <<>>, Synonyms |-> <<>>, Antonyms |-> <<>>]

EsCaches ==
    {EmptyMap} \cup {Put(EmptyMap, W_a, EsEntry(x)) : x \in SeqsUpTo(ExampleTexts, MaxDefs)}

EsUnknowns == {EmptyMap, Put(EmptyMap, W_a, TRUE)}

EsInit ==
    /\ pc = "running"
    /\ config \in {[DefaultConfig EXCEPT !.MaxExampleSentences = m] : m \in -1..MaxLimit}
    /\ queryForUnknownWords = FALSE
    /\ wordCache \in EsCaches
    /\ wordUnknown \in EsUnknowns
    /\ cacheFile = NoFile /\ unknownFile = NoFile
    /\ runs = 1
    /\ atLoad = AtLoadNone
    /\ netCalls = ZeroCounts
    /\ ret = RetNone
    /\ rk = RkIdle /\ ct = CtIdle /\ tx = TxIdle
    /\ es = [EsIdle EXCEPT !.pc = "called", !.word = W_A]

\* the sentences collected from the definitions from position i on; def is
\* the position of the definition a sentence comes from
RECURSIVE exampleSentences(_, _)
exampleSentences(definitions, i) ==
    IF i > Len(definitions) THEN <<>>
    ELSE (IF definitions[i].Example # <<>>
          THEN <<[def |-> i, text |-> capitalizeSentence(definitions[i].Example)]>>
          ELSE <<>>)
            \o exampleSentences(definitions, i + 1)

\* a removal that leaves the chosen sentence among the available ones
RemoveAt_Keeps(xs, randIndex) == xs

\* a slice without its element at randIndex (1-based)
RemoveAt(xs, randIndex) ==
    SubSeq(xs, 1, randIndex - 1) \o SubSeq(xs, randIndex + 1, Len(xs))

\* the returned string, as its lines
EsOutput(word, selectedExamples) ==
    <<capitalizePhrase(word)>>
        \o [j \in DOMAIN selectedExamples |-> selectedExamples[j].text]

\* the function up to the selection: the early returns, the collection, and
\* the case in which all sentences are used
EsCollect ==
    /\ es.pc = "called"
    /\ LET word == ToLower(es.word)
           all  == IF word \in DOMAIN wordCache
                   THEN exampleSentences(wordCache[word].Definitions, 1) ELSE <<>>
       IN  IF \/ word \in DOMAIN wordUnknown
              \/ word \notin DOMAIN wordCache
              \/ all = <<>>
           THEN es' = [es EXCEPT !.pc = "returned", !.out = <<>>]
           ELSE IF \/ config.MaxExampleSentences <= 0
                   \/ config.MaxExampleSentences >= Len(all)
           THEN es' = [es EXCEPT !.pc = "returned", !.selectedExamples = all,
                                 !.out = EsOutput(word, all)]
           ELSE es' = [es EXCEPT !.pc = "selecting", !.availableExamples = all]
    /\ UNCHANGED <<resolverVars, rk, ct, tx>>

\* one round of the selection loop, rand.Intn coming to randIndex - 1
EsPick(randIndex) ==
    /\ es.pc = "selecting"
    /\ es.i < config.MaxExampleSentences /\ es.availableExamples # <<>>
    /\ randIndex \in DOMAIN es.availableExamples
    /\ es' = [es EXCEPT
                !.i = @ + 1,
                !.selectedExamples = Append(@, es.availableExamples[randIndex]),
                !.availableExamples = RemoveAt(@, randIndex)]
    /\ UNCHANGED <<resolverVars, rk, ct, tx>>

\* the loop has ended: the output is formatted
EsFormat ==
    /\ es.pc = "selecting"
    /\ ~(es.i < config.MaxExampleSentences /\ es.availableExamples # <<>>)
    /\ es' = [es EXCEPT !.pc = "returned",
                        !.out = EsOutput(ToLower(es.word), es.selectedExamples)]
    /\ UNCHANGED <<resolverVars, rk, ct, tx>>

EsNext ==
    \/ EsCollect
    \/ \E randIndex \in 1..MaxDefs + 1 : EsPick(randIndex)
    \/ EsFormat

SpecExamples == EsInit /\ [][EsNext]_vars

\* the number of cached definitions of the word that have an example
ExamplesOf(word) ==
    IF word \in DOMAIN wordCache
    THEN Cardinality({i \in DOMAIN wordCache[word].Definitions :
                         wordCache[word].Definitions[i].Example # <<>>})
    ELSE 0

Min(a, b) == IF a <= b THEN a ELSE b

\* C26: the call emits E sentences when MaxExampleSentences is at most 0 and
\* min(MaxExampleSentences, E) otherwise, E being the number of cached
\* definitions with an example; each sentence is that of a definition of its
\* own; a word with a marker, or with E = 0, gets the empty string.
C26_ExampleSentencesLimited ==
    es.pc = "returned" =>
        LET word    == ToLower(es.word)
            E       == ExamplesOf(word)
            M       == config.MaxExampleSentences
            emitted == IF es.out = <<>> THEN 0 ELSE Len(es.out) - 1
        IN  IF word \in DOMAIN wordUnknown \/ E = 0
            THEN es.out = <<>>
            ELSE /\ es.out # <<>>
                 /\ es.out[1] = capitalizePhrase(word)
                 /\ emitted = (IF M <= 0 THEN E ELSE Min(M, E))
                 /\ Len(es.selectedExamples) = emitted
                 /\ \A j \in DOMAIN es.selectedExamples :
                       /\ es.out[j + 1] = es.selectedExamples[j].text
                       /\ es.selectedExamples[j].def \in DOMAIN wordCache[word].Definitions
                       /\ es.selectedExamples[j].text =
                             capitalizeSentence(
                                 wordCache[word].Definitions[es.selectedExamples[j].def].Example)
                 /\ \A j, k \in DOMAIN es.selectedExamples :
                       es.selectedExamples[j].def = es.selectedExamples[k].def => j = k

\* two of three sentences were picked, the later one first
C26_Witness ==
    /\ es.pc = "returned"
    /\ config.MaxExampleSentences = 2
    /\ ExamplesOf(W_a) = 3
    /\ Len(es.out) = 3
    /\ es.selectedExamples[1].def > es.selectedExamples[2].def

\* C28: a step of the loop that writes _AllWords_ex.txt sends no request and
\* leaves both maps as they are, and the word the loop is at has an entry of
\* at least one definition and no marker.
C28_AllWordsPassUsesCacheOnly ==
    [][ct.pc = "allwords" =>
          /\ ct'.inflight = <<>>
          /\ netCalls' = netCalls
          /\ wordCache' = wordCache
          /\ wordUnknown' = wordUnknown
          /\ ct.sortedWords # <<>> =>
                /\ ToLower(Head(ct.sortedWords)) \in DOMAIN wordCache
                /\ Len(wordCache[ToLower(Head(ct.sortedWords))].Definitions) >= 1
                /\ ToLower(Head(ct.sortedWords)) \notin DOMAIN wordUnknown]_vars

\* the words written to the word-list file of some category
WrittenWords == UNION {Range(ct.files[c]) : c \in DOMAIN ct.files}

\* C29: no word is on a line of a category word-list file and also a key of
\* uniqueUnknownWords, the words of UnknownWords.txt and of the unknown count.
C29_WrittenWordIsNotUnknown ==
    \A word \in WrittenWords : ToLower(word) \notin DOMAIN ct.uniqueUnknownWords

\* C30: the count by which an unknown word is ranked in UnknownWords.txt is
\* the number of its accepted occurrences in the document.
C30_UnknownCountIsOccurrences ==
    SummariesWritten =>
        \A k \in DOMAIN ct.uniqueUnknownWords \ {<<>>} :
            ct.uniqueUnknownWords[k] = Occurrences(k)

\* the word holds a letter
HasLetter(word) == \E i \in DOMAIN Runes(word) : IsLetter(Runes(word)[i])

\* C31: every word counted in allWords, put in a category, passed to
\* fetchWordDetails or sent to the dictionary service holds a letter.
C31_NoEmptyWordAccepted ==
    /\ \A word \in DOMAIN ct.allWords : HasLetter(word)
    /\ \A c \in DOMAIN ct.categorizedWords :
          \A word \in Range(ct.categorizedWords[c]) : HasLetter(word)
    /\ \A word \in Range(ct.sortedWords) : HasLetter(word)
    /\ ret.op = "fetch" => HasLetter(ret.word)
    /\ \A word \in Range(ct.inflight) : HasLetter(word)
    /\ \A k \in DOMAIN netCalls : netCalls[k] > 0 => HasLetter(k)

=============================================================================
